---- MODULE Spec2Model ----
(***************************************************************************)
(* State-machine model of the STM32 firmware upload sequence               *)
(* (sequences/stm32_firmware_upload/sequence.py): the lifecycle            *)
(* setup() -> run() -> teardown() of STM32FirmwareUpload, the external     *)
(* programmer invocations it makes and the events it emits to the host.    *)
(*                                                                         *)
(* run() and teardown() are coroutines: each action below is the code      *)
(* between two suspension points (an await of the external process) or     *)
(* between two step boundaries.  Text is modelled as lines of tokens, so   *)
(* the substring tests of the source become token tests.  Wall-clock       *)
(* durations carried by the step-complete events are left out.             *)
(***************************************************************************)
EXTENDS Integers, Sequences, FiniteSets, TLC

VARIABLES
    pc,                   \* position of the lifecycle
    params,               \* host-supplied parameters (get_parameter)
    fsys,                 \* file system / process environment seen by setup
    firmware_path,        \* self.firmware_path
    firmware_size,        \* self.firmware_size
    erase_before_upload,  \* self.erase_before_upload
    verify_after_upload,  \* self.verify_after_upload
    reset_after_upload,   \* self.reset_after_upload
    stop_on_failure,      \* self.stop_on_failure
    total_steps,          \* run(): total_steps
    passed,               \* run(): passed
    measurements,         \* run(): measurements (set of <<key, value>>)
    stopped_at,           \* run(): stopped_at
    current_step,         \* run(): current_step
    verify_result,        \* run(): verify_result
    result,               \* what run() returned or raised
    setup_error,          \* the SetupError setup() raised, or None
    teardown_raised,      \* whether teardown() let an exception escape
    events,               \* everything emitted to the host, in order
    calls,                \* every external process launched, in order
    examined,             \* paths whose existence setup looked at, in order
    abort_requested,      \* the host's cancellation signal
    last_error,           \* self.last_error
    upload_time,          \* run(): upload_time
    last_cmd,             \* what _run_programmer_cmd returned or raised last
    config,               \* self.connection_mode, connect_mode, reset_mode, frequency
    probe_outputs,        \* what the tool may print for the -l command
    stlink_info           \* run(): stlink_info

vars == <<pc, params, fsys, firmware_path, firmware_size, erase_before_upload,
          verify_after_upload, reset_after_upload, stop_on_failure, total_steps,
          passed, measurements, stopped_at, current_step, verify_result, result,
          setup_error, teardown_raised, events, calls, examined,
          abort_requested, last_error, upload_time, last_cmd, config,
          probe_outputs, stlink_info>>

cfgVars == <<params, fsys, firmware_path, firmware_size, erase_before_upload,
             verify_after_upload, reset_after_upload, stop_on_failure, config,
             probe_outputs>>

runVars == <<total_steps, passed, measurements, stopped_at, current_step,
             verify_result>>

\* Python's None.
None == "None"

----------------------------------------------------------------------------
(* Text: an output is a sequence of lines, a line a sequence of tokens.    *)

Contains(output, s) ==
    \E i \in 1..Len(output) : \E j \in 1..Len(output[i]) : output[i][j] = s

LineContains(line, s) == \E j \in 1..Len(line) : line[j] = s

\* str.split(":") on one line: the segments between the colons.
RECURSIVE SplitColon(_)
SplitColon(line) ==
    IF \A i \in 1..Len(line) : line[i] # ":"
    THEN <<line>>
    ELSE LET k == CHOOSE i \in 1..Len(line) :
                     /\ line[i] = ":"
                     /\ \A j \in 1..(i - 1) : line[j] # ":"
         IN  <<SubSeq(line, 1, k - 1)>> \o SplitColon(SubSeq(line, k + 1, Len(line)))

\* str.strip(): blanks removed at both ends.
RECURSIVE Strip(_)
Strip(seg) ==
    IF seg = <<>> THEN seg
    ELSE IF Head(seg) = " " THEN Strip(Tail(seg))
    ELSE IF seg[Len(seg)] = " " THEN Strip(SubSeq(seg, 1, Len(seg) - 1))
    ELSE seg

\* str.lower() on the suffixes of the model's file names.
Lower(s) ==
    CASE s = ".BIN" -> ".bin"
      [] s = ".Hex" -> ".hex"
      [] s = ".ELF" -> ".elf"
      [] s = ".TXT" -> ".txt"
      [] OTHER -> s

----------------------------------------------------------------------------
(* Events emitted to the host.                                             *)

LogEv(level, msg) ==
    [type |-> "log", level |-> level, id |-> None, index |-> 0, total |-> 0,
     ok |-> TRUE, text |-> msg]

StepStartEv(id, index, total) ==
    [type |-> "step_start", level |-> None, id |-> id, index |-> index,
     total |-> total, ok |-> TRUE, text |-> None]

StepCompleteEv(id, index, ok, error) ==
    [type |-> "step_complete", level |-> None, id |-> id, index |-> index,
     total |-> 0, ok |-> ok, text |-> error]

ErrorEv(code, msg) ==
    [type |-> "error", level |-> None, id |-> code, index |-> 0, total |-> 0,
     ok |-> FALSE, text |-> msg]

----------------------------------------------------------------------------
(* The external process: what the operating system and the tool do when a  *)
(* command is launched.                                                    *)

LaunchFail == [kind |-> "launch_fail", returncode |-> 0, output |-> <<>>]
TimedOut == [kind |-> "timeout", returncode |-> 0, output |-> <<>>]
Exited(rc, out) == [kind |-> "exit", returncode |-> rc, output |-> out]

ReturnCodes == {0, 1}

Procs(outputs) ==
    {LaunchFail, TimedOut} \cup {Exited(rc, o) : rc \in ReturnCodes, o \in outputs}

ProbeOutputs ==
    { <<>>,
      << <<"Error", ":", " ", "No debug probe detected">> >>,
      << <<"ST-LINK SN", " ", ":", " ", "12345">>,
         <<"Device ID", ":", "0x450">>,
         <<"Device name", ":", "STM32H7xx">> >>,
      << <<"Device ID", ":", "0x450">> >> }

EraseOutputs == { <<>>, << <<"Mass erase successfully achieved">> >> }

WriteOutputs ==
    { <<>>,
      << <<"File download complete">> >>,
      << <<"Download verified successfully">> >>,
      << <<"File download complete">>, <<"Download verified successfully">> >>,
      << <<"Error", ":", " ", "failed to download">> >> }

ResetOutputs == { <<>>, << <<"MCU Reset">> >> }

\* Elapsed wall-clock time of an upload, in whole units.
MaxElapsed == 1

Elapsed == 0..MaxElapsed

----------------------------------------------------------------------------
(* _run_programmer_cmd and the four operations built on it, as functions   *)
(* of what the launched process does.  exc is the message of the raised    *)
(* HardwareError, or None when the call returns.                           *)

\* The debug line logged before the process is launched.
RunningLog == LogEv("debug", "Running")

\* Mutant: the exit status is not looked at.
RunProgrammerCmd_IgnoresExit(proc) ==
    CASE proc.kind = "timeout" ->
           [error_kind |-> "HardwareError", exc |-> "Programmer command timed out",
            success |-> FALSE, output |-> <<>>, logs |-> <<>>]
      [] proc.kind = "exit" ->
           [error_kind |-> None, exc |-> None, success |-> TRUE,
            output |-> proc.output, logs |-> <<>>]
      [] OTHER ->
           [error_kind |-> "HardwareError", exc |-> "Failed to run programmer",
            success |-> FALSE, output |-> <<>>, logs |-> <<>>]

RunProgrammerCmd(proc) ==
    CASE proc.kind = "timeout" ->
           [error_kind |-> "HardwareError", exc |-> "Programmer command timed out",
            success |-> FALSE, output |-> <<>>, logs |-> <<>>]
      [] proc.kind = "exit" ->
           LET success == proc.returncode = 0
           IN  [error_kind |-> None, exc |-> None, success |-> success,
                output |-> proc.output,
                logs |-> IF ~success THEN <<LogEv("error", "Command failed")>>
                         ELSE <<>>]
      [] OTHER ->
           [error_kind |-> "HardwareError", exc |-> "Failed to run programmer",
            success |-> FALSE, output |-> <<>>, logs |-> <<>>]

\* What the caller of _run_programmer_cmd gets: the pair it returns or the
\* error it raises.
CmdResult(proc) ==
    LET r == RunProgrammerCmd(proc)
    IN  [error_kind |-> r.error_kind, exc |-> r.exc, success |-> r.success,
         output |-> r.output]

NoCmd == [error_kind |-> None, exc |-> None, success |-> FALSE, output |-> <<>>]

\* The loop of _check_stlink_connection over the lines: the value after the
\* colon of each line holding `key` is assigned in turn.
RECURSIVE ScanLines(_, _, _)
ScanLines(lines, key, value) ==
    IF lines = <<>> THEN value
    ELSE LET line == Head(lines)
             parts == SplitColon(line)
             next == IF LineContains(line, key) /\ Len(parts) > 1
                     THEN Strip(parts[2])
                     ELSE value
         IN  ScanLines(Tail(lines), key, next)

CheckStlinkConnection(proc) ==
    LET r == RunProgrammerCmd(proc)
    IN  IF r.exc # None
        THEN [exc |-> r.exc, connected |-> FALSE, info |-> {}, logs |-> r.logs]
        ELSE IF Contains(r.output, "Device ID") \/ Contains(r.output, "Device name")
        THEN [exc |-> None, connected |-> TRUE,
              info |-> { <<"serial", ScanLines(r.output, "ST-LINK SN", <<"unknown">>)>>,
                         <<"device_name",
                           ScanLines(r.output, "Device name", <<"unknown">>)>> },
              logs |-> r.logs]
        ELSE [exc |-> None, connected |-> FALSE, info |-> {}, logs |-> r.logs]

\* Mutant: the erase reports success whatever the exit status.
EraseFlash_IgnoresExit(proc) ==
    LET r == RunProgrammerCmd(proc)
    IN  [exc |-> r.exc, success |-> TRUE, logs |-> r.logs]

EraseFlash(proc) ==
    LET r == RunProgrammerCmd(proc)
    IN  [exc |-> r.exc, success |-> r.success, logs |-> r.logs]

\* The arguments of the write command after the connect string.
UploadArgs(path, verify) ==
    <<"-w", path, "0x08000000">> \o (IF verify THEN <<"-v">> ELSE <<>>)

\* Mutant: without a verification request the outcome is left false.
UploadFirmware_NoDefault(proc, verify) ==
    LET r == RunProgrammerCmd(proc)
    IN  [exc |-> r.exc, success |-> r.success,
         verify_result |->
             verify /\ r.success
                    /\ (\/ Contains(r.output, "File download complete")
                        \/ Contains(r.output, "Download verified successfully")),
         logs |-> r.logs]

UploadFirmware(proc, verify) ==
    LET r == RunProgrammerCmd(proc)
        verify_success ==
            IF verify /\ r.success
            THEN \/ Contains(r.output, "File download complete")
                 \/ Contains(r.output, "Download verified successfully")
            ELSE IF verify
            THEN Contains(r.output, "Download verified successfully")
            ELSE FALSE
    IN  [exc |-> r.exc, success |-> r.success,
         verify_result |-> IF verify THEN verify_success ELSE TRUE,
         logs |-> r.logs]

ResetTarget(proc) ==
    LET r == RunProgrammerCmd(proc)
    IN  [exc |-> r.exc, success |-> r.success, logs |-> r.logs]

\* str.upper() on the values a connection parameter takes.
Upper(s) ==
    CASE s = "swd" -> "SWD"
      [] s = "jtag" -> "JTAG"
      [] s = "normal" -> "NORMAL"
      [] s = "Normal" -> "NORMAL"
      [] s = "hotplug" -> "HOTPLUG"
      [] s = "ur" -> "UR"
      [] s = "HWrst" -> "HWRST"
      [] s = "SWrst" -> "SWRST"
      [] OTHER -> s

\* Truthiness of a string parameter: None and "" are false.
Truthy(s) == s # None /\ s # ""

\* Mutant: the reset mode is upper-cased like the other tokens.
BuildConnectArgs_UpperReset(cfg) ==
    << <<"port", Upper(cfg.connection_mode)>> >>
    \o (IF Truthy(cfg.connect_mode) /\ Upper(cfg.connect_mode) # "NORMAL"
        THEN << <<"mode", Upper(cfg.connect_mode)>> >> ELSE <<>>)
    \o (IF Truthy(cfg.reset_mode)
        THEN << <<"reset", Upper(cfg.reset_mode)>> >> ELSE <<>>)
    \o (IF cfg.frequency # 0
        THEN << <<"freq", ToString(cfg.frequency)>> >> ELSE <<>>)

\* _build_connect_args: the connect string as its space-separated
\* key=value tokens.
BuildConnectArgs(cfg) ==
    << <<"port", Upper(cfg.connection_mode)>> >>
    \o (IF Truthy(cfg.connect_mode) /\ Upper(cfg.connect_mode) # "NORMAL"
        THEN << <<"mode", Upper(cfg.connect_mode)>> >> ELSE <<>>)
    \o (IF Truthy(cfg.reset_mode)
        THEN << <<"reset", cfg.reset_mode>> >> ELSE <<>>)
    \o (IF cfg.frequency # 0
        THEN << <<"freq", ToString(cfg.frequency)>> >> ELSE <<>>)

\* The bounds given to asyncio.wait_for.
CmdTimeout == 120

VersionTimeout == 10

\* One launched process: who launched it (setup, run or teardown), the
\* operation, its arguments after the connect string, the number of events
\* emitted before the launch, and how it ended ("running" while awaited).
Call(by, op, args, at) ==
    [by |-> by, op |-> op, args |-> args, at |-> at, status |-> "running",
     returncode |-> 0, output |-> <<>>,
     timeout |-> IF by = "setup" THEN VersionTimeout ELSE CmdTimeout,
     connect |-> IF by = "setup" THEN <<>> ELSE BuildConnectArgs(config)]

\* Mutant: a command that timed out is launched a second time.
Ended_Retry(cs, proc) ==
    LET ended == [cs EXCEPT ![Len(cs)].status = proc.kind,
                            ![Len(cs)].returncode = proc.returncode,
                            ![Len(cs)].output = proc.output]
    IN  IF proc.kind = "timeout" THEN Append(ended, cs[Len(cs)]) ELSE ended

Ended(cs, proc) ==
    [cs EXCEPT ![Len(cs)].status = proc.kind,
               ![Len(cs)].returncode = proc.returncode,
               ![Len(cs)].output = proc.output]

----------------------------------------------------------------------------
(* setup(): parameters, firmware file checks, programmer validation.       *)

FirmwarePaths ==
    {None, "", "missing.bin", "fw", "fw.txt", "fw.bin", "FW.BIN", "fw.hex", "fw.elf"}

\* Path.exists() of the model's files.
FileExists(path) == path \in {"fw", "fw.txt", "fw.bin", "FW.BIN", "fw.hex", "fw.elf"}

\* Path.suffix of the model's files.
Suffix(path) ==
    CASE path \in {"fw.bin", "missing.bin"} -> ".bin"
      [] path = "FW.BIN" -> ".BIN"
      [] path = "fw.hex" -> ".hex"
      [] path = "fw.elf" -> ".elf"
      [] path = "fw.txt" -> ".txt"
      [] OTHER -> ""

\* Path.stat().st_size of the model's files.
FileSize(path) == IF path = "fw.hex" THEN 2048 ELSE 1024

AllowedSuffixes == {".bin", ".hex", ".elf"}

\* Mutant: the existence of the file is not checked.
FirmwareCheck_SkipsExists(path) ==
    IF path \in {None, ""} THEN "firmware_path parameter is required"
    ELSE IF ~(Lower(Suffix(path)) \in AllowedSuffixes)
    THEN "Unsupported firmware format"
    ELSE None

\* The firmware checks of setup: the SetupError message, or None.
FirmwareCheck(path) ==
    IF path \in {None, ""} THEN "firmware_path parameter is required"
    ELSE IF ~FileExists(path) THEN "Firmware file not found"
    ELSE IF ~(Lower(Suffix(path)) \in AllowedSuffixes)
    THEN "Unsupported firmware format"
    ELSE None

VersionOutputs ==
    { <<>>,
      << <<"STM32CubeProgrammer", " ", "v2.17.0">> >>,
      << <<"command not recognised">> >> }

NotFound == [kind |-> "not_found", returncode |-> 0, output |-> <<>>]

VersionProcs == Procs(VersionOutputs) \cup {NotFound}

\* Mutant: the version probe accepts any process that ended.
VersionAccepted_Always(proc) == TRUE

\* The test of the version probe on a process that ended.
VersionAccepted(proc) ==
    Contains(proc.output, "STM32CubeProgrammer") \/ proc.returncode = 0

\* _validate_programmer, given the environment: the SetupError message (or
\* None), the lines it logs, the paths it looks at and whether the version
\* probe is launched.
ValidateProgrammer(env) ==
    IF ~env.prog_exists
    THEN [error |-> IF env.alt_found
                    THEN "STM32CubeProgrammer CLI not found (alternative found)"
                    ELSE "STM32CubeProgrammer CLI not found (not installed)",
          logs |-> <<>>, examined |-> <<"programmer", "alternatives">>,
          probed |-> FALSE]
    ELSE IF env.os_name # "nt" /\ ~env.executable
    THEN [error |-> "STM32CubeProgrammer CLI is not executable",
          logs |-> <<>>, examined |-> <<"programmer">>, probed |-> FALSE]
    ELSE
      LET proc == env.version_proc
          base == [error |-> None, logs |-> <<>>, examined |-> <<"programmer">>,
                   probed |-> TRUE]
      IN  CASE proc.kind = "timeout" ->
                 [base EXCEPT !.error =
                     "STM32CubeProgrammer CLI timed out during version check"]
            [] proc.kind = "not_found" ->
                 [base EXCEPT !.error =
                     "STM32CubeProgrammer CLI not found or missing dependencies"]
            [] proc.kind = "exit" ->
                 IF VersionAccepted(proc)
                 THEN IF \E i \in 1..Len(proc.output) :
                            \/ LineContains(proc.output[i], "version")
                            \/ LineContains(proc.output[i], "STM32CubeProgrammer")
                      THEN [base EXCEPT !.logs = <<LogEv("info", "Programmer")>>]
                      ELSE [base EXCEPT !.logs =
                               <<LogEv("info", "STM32CubeProgrammer CLI verified")>>]
                 ELSE [base EXCEPT !.error =
                          "Failed to verify STM32CubeProgrammer CLI"]
            [] OTHER ->
                 [base EXCEPT !.error = "Failed to verify STM32CubeProgrammer CLI"]

\* The whole of setup() after the parameters are loaded.
SetupOutcome(path, env) ==
    LET hello == <<LogEv("info", "Initializing STM32 firmware upload sequence...")>>
        fe == FirmwareCheck(path)
        looked == IF path \in {None, ""} THEN <<>> ELSE <<"firmware">>
    IN  IF fe # None
        THEN [error |-> fe, logs |-> hello, examined |-> looked, probed |-> FALSE,
              size |-> 0]
        ELSE LET v == ValidateProgrammer(env)
                 logs == hello \o <<LogEv("info", "Firmware file")>> \o v.logs
             IN  [error |-> v.error,
                  logs |-> IF v.error = None
                           THEN logs \o <<LogEv("info", "Setup completed successfully")>>
                           ELSE logs,
                  examined |-> looked \o v.examined,
                  probed |-> v.probed,
                  size |-> FileSize(path)]

\* self.last_error as the host keeps it: the message of the latest error.
RecordError(last, msg) == msg

Setup ==
    /\ pc = "idle"
    /\ LET o == SetupOutcome(params.firmware_path, fsys)
       IN  /\ firmware_path' = params.firmware_path
           /\ erase_before_upload' = params.erase
           /\ verify_after_upload' = params.verify
           /\ reset_after_upload' = params.reset
           /\ stop_on_failure' = params.stop_on_failure
           /\ firmware_size' = o.size
           /\ events' = events \o o.logs
           /\ examined' = examined \o o.examined
           /\ calls' = IF o.probed
                       THEN Ended(Append(calls, Call("setup", "version", <<"--version">>,
                                                  Len(events'))),
                                  fsys.version_proc)
                       ELSE calls
           /\ setup_error' = o.error
           /\ \E recorded \in BOOLEAN :
                  last_error' = IF o.error # None /\ recorded
                                THEN RecordError(last_error, o.error)
                                ELSE last_error
           /\ pc' = IF o.error = None THEN "ready" ELSE "setup_failed"
    /\ UNCHANGED <<params, fsys, runVars, result, teardown_raised, abort_requested>>
    /\ UNCHANGED <<upload_time, last_cmd>>
    /\ UNCHANGED stlink_info
    /\ UNCHANGED <<config, probe_outputs>>

----------------------------------------------------------------------------
(* run(): the decisions of the sequence controller.                        *)

\* Mutant: the verify step is left out of the count.
TotalSteps_ForgetsVerify(erase, verify) == 2 + (IF erase THEN 1 ELSE 0)

\* Mutant: the reset is counted as a step.
TotalSteps_CountsReset(erase, verify) ==
    3 + (IF erase THEN 1 ELSE 0) + (IF verify THEN 1 ELSE 0)

TotalSteps(erase, verify) ==
    2 + (IF erase THEN 1 ELSE 0) + (IF verify THEN 1 ELSE 0)

\* `if self.stop_on_failure: return ...` of a failed step.
StopNow(sof) == sof

\* Mutant: the failure is not recorded in passed.
PassedAfterFailure_Keep(p) == p

\* `passed = False` of a failed step that does not return.
PassedAfterFailure(p) == FALSE

\* Mutant: a later failure overwrites stopped_at.
FirstStoppedAt_Overwrite(cur, id) == id

\* `stopped_at = stopped_at or id`.
FirstStoppedAt(cur, id) == IF cur # None THEN cur ELSE id

\* Mutant: the erase step does not look at its flag.
EraseGate_IgnoresFlag(erase, p, sof) == p \/ ~sof

EraseGate(erase, p, sof) == erase /\ (p \/ ~sof)

\* Mutant: the upload is skipped after any failure.
UploadGate_NeedsPassed(p, sof) == p

UploadGate(p, sof) == p \/ ~sof

VerifyGate(verify, p, sof) == verify /\ (p \/ ~sof)

\* Mutant: the reset runs after a failed step too.
ResetGate_IgnoresPassed(reset, p) == reset

ResetGate(reset, p) == reset /\ p

\* Mutant: only the timeout is caught.
ExceptCatches_OnlyTimeout(exc) == exc = "Programmer command timed out"

\* `except Exception` of the steps: every error the awaited operations
\* raise is caught.
ExceptCatches(exc) == TRUE

\* Mutant: a failing reset is not caught.
ResetCatches_Nothing(exc) == FALSE

\* `except Exception` around the reset.
ResetCatches(exc) == TRUE

\* Mutant: only the timeout is caught.
TeardownCatches_OnlyTimeout(exc) == exc = "Programmer command timed out"

\* `except Exception` around the re-probe of teardown.
TeardownCatches(exc) == TRUE

NoResult == [kind |-> "none", passed |-> FALSE, measurements |-> {}, data |-> {}]

RaisedResult(exc) ==
    [kind |-> "raised", passed |-> FALSE, measurements |-> {}, data |-> {<<"exc", exc>>}]

\* Mutant: every early return names the first step.
EarlyResult_CopyPaste(m, id) ==
    [kind |-> "returned", passed |-> FALSE, measurements |-> m,
     data |-> {<<"stopped_at", "check_connection">>}]

\* The early return of a failed step under stop_on_failure.
EarlyResult(m, id) ==
    [kind |-> "returned", passed |-> FALSE, measurements |-> m,
     data |-> {<<"stopped_at", id>>}]

\* Mutant: the final return never attaches data.
BuildResult_NoData(p, m, s) ==
    [kind |-> "returned", passed |-> p, measurements |-> m, data |-> {}]

\* The result built at the end of run().
BuildResult(p, m, s) ==
    [kind |-> "returned", passed |-> p, measurements |-> m,
     data |-> IF s # None THEN {<<"stopped_at", s>>} ELSE {}]

\* Mutant: the cancellation signal is never polled.
AbortPolled_Never(signal) == FALSE

\* `self.check_abort()` at a step boundary: the signal is read there.
AbortPolled(signal) == signal

\* check_abort() raising: the run ends with the abort error.
Abort ==
    /\ pc' = "aborted"
    /\ result' = RaisedResult("AbortError")
    /\ \E recorded \in BOOLEAN :
           last_error' = IF recorded
                         THEN RecordError(last_error, "AbortError")
                         ELSE last_error
    /\ UNCHANGED <<events, calls>>

\* A step begins: step-start event, then the command is launched.
Begin(id, index, total, op, args, at) ==
    /\ events' = events \o <<StepStartEv(id, index, total), RunningLog>>
    /\ calls' = Append(calls, Call("run", op, args, Len(events')))
    /\ pc' = at
    /\ UNCHANGED <<result, last_error>>

\* Mutant: every failure is classified as an upload error.
Fail_UploadCode(id, code, exc, logs, stopped, at) ==
    /\ events' = events \o logs
                   \o <<ErrorEv("UPLOAD_ERROR", exc),
                        StepCompleteEv(id, current_step, FALSE, exc)>>
    /\ last_error' = RecordError(last_error, exc)
    /\ IF StopNow(stop_on_failure)
       THEN /\ result' = EarlyResult(measurements, id)
            /\ pc' = "returned"
            /\ UNCHANGED <<passed, stopped_at>>
       ELSE /\ passed' = PassedAfterFailure(passed)
            /\ stopped_at' = stopped
            /\ pc' = at
            /\ UNCHANGED result

\* Mutant: the except branch emits the error event and no step-complete.
Fail_NoComplete(id, code, exc, logs, stopped, at) ==
    /\ events' = events \o logs \o <<ErrorEv(code, exc)>>
    /\ last_error' = RecordError(last_error, exc)
    /\ IF StopNow(stop_on_failure)
       THEN /\ result' = EarlyResult(measurements, id)
            /\ pc' = "returned"
            /\ UNCHANGED <<passed, stopped_at>>
       ELSE /\ passed' = PassedAfterFailure(passed)
            /\ stopped_at' = stopped
            /\ pc' = at
            /\ UNCHANGED result

\* The except branch of a step: error event, failing step-complete, then
\* either the early return or the degraded continuation.
Fail(id, code, exc, logs, stopped, at) ==
    /\ events' = events \o logs
                   \o <<ErrorEv(code, exc), StepCompleteEv(id, current_step, FALSE, exc)>>
    /\ last_error' = RecordError(last_error, exc)
    /\ IF StopNow(stop_on_failure)
       THEN /\ result' = EarlyResult(measurements, id)
            /\ pc' = "returned"
            /\ UNCHANGED <<passed, stopped_at>>
       ELSE /\ passed' = PassedAfterFailure(passed)
            /\ stopped_at' = stopped
            /\ pc' = at
            /\ UNCHANGED result

\* An error the except clause does not catch leaves run().
Escape(exc, logs) ==
    /\ events' = events \o logs
    /\ result' = RaisedResult(exc)
    /\ pc' = "raised"
    /\ UNCHANGED <<passed, stopped_at, last_error>>

StartCheckConnection ==
    /\ pc = "ready"
    /\ total_steps' = TotalSteps(erase_before_upload, verify_after_upload)
    /\ passed' = TRUE
    /\ measurements' = {}
    /\ stopped_at' = None
    /\ current_step' = 1
    /\ IF AbortPolled(abort_requested)
       THEN Abort
       ELSE Begin("check_connection", current_step', total_steps', "probe", <<"-l">>,
                  "check_connection")
    /\ UNCHANGED <<cfgVars, verify_result, setup_error, teardown_raised, examined,
                   abort_requested>>
    /\ UNCHANGED <<upload_time, last_cmd>>
    /\ UNCHANGED stlink_info

FinishCheckConnection ==
    /\ pc = "check_connection"
    /\ \E proc \in Procs(probe_outputs) :
         LET r == CheckStlinkConnection(proc)
             exc == IF r.exc # None THEN r.exc
                    ELSE IF ~r.connected THEN "ST-LINK not detected"
                    ELSE None
         IN  /\ calls' = Ended(calls, proc)
             /\ last_cmd' = CmdResult(proc)
             /\ stlink_info' = IF r.exc = None THEN r.info ELSE stlink_info
             /\ IF exc = None
                THEN /\ events' = events \o r.logs
                                    \o <<LogEv("info", "ST-LINK detected"),
                                         StepCompleteEv("check_connection",
                                                        current_step, TRUE, None)>>
                     /\ pc' = "erase_gate"
                     /\ UNCHANGED <<passed, stopped_at, result, last_error>>
                ELSE IF ExceptCatches(exc)
                THEN Fail("check_connection", "CONNECTION_ERROR", exc, r.logs,
                          "check_connection", "erase_gate")
                ELSE Escape(exc, r.logs)
    /\ UNCHANGED <<cfgVars, total_steps, measurements, current_step, verify_result,
                   setup_error, teardown_raised, examined, abort_requested>>
    /\ UNCHANGED upload_time

StartErase ==
    /\ pc = "erase_gate"
    /\ IF EraseGate(erase_before_upload, passed, stop_on_failure)
       THEN /\ current_step' = current_step + 1
            /\ IF AbortPolled(abort_requested)
               THEN Abort
               ELSE Begin("erase_chip", current_step', total_steps, "erase",
                          <<"-e", "all">>, "erase_chip")
       ELSE /\ pc' = "upload_gate"
            /\ UNCHANGED <<current_step, events, calls, result, last_error>>
    /\ UNCHANGED <<cfgVars, total_steps, passed, measurements, stopped_at,
                   verify_result, setup_error, teardown_raised, examined,
                   abort_requested>>
    /\ UNCHANGED <<upload_time, last_cmd>>
    /\ UNCHANGED stlink_info

FinishErase ==
    /\ pc = "erase_chip"
    /\ \E proc \in Procs(EraseOutputs) :
         LET r == EraseFlash(proc)
             exc == IF r.exc # None THEN r.exc
                    ELSE IF ~r.success THEN "Failed to erase flash memory"
                    ELSE None
         IN  /\ calls' = Ended(calls, proc)
             /\ last_cmd' = CmdResult(proc)
             /\ IF exc = None
                THEN /\ events' = events \o r.logs
                                    \o <<StepCompleteEv("erase_chip", current_step,
                                                        TRUE, None)>>
                     /\ pc' = "upload_gate"
                     /\ UNCHANGED <<passed, stopped_at, result, last_error>>
                ELSE IF ExceptCatches(exc)
                THEN Fail("erase_chip", "ERASE_ERROR", exc, r.logs,
                          FirstStoppedAt(stopped_at, "erase_chip"), "upload_gate")
                ELSE Escape(exc, r.logs)
    /\ UNCHANGED <<cfgVars, total_steps, measurements, current_step, verify_result,
                   setup_error, teardown_raised, examined, abort_requested>>
    /\ UNCHANGED upload_time
    /\ UNCHANGED stlink_info

StartUpload ==
    /\ pc = "upload_gate"
    /\ verify_result' = FALSE
    /\ IF UploadGate(passed, stop_on_failure)
       THEN /\ current_step' = current_step + 1
            /\ IF AbortPolled(abort_requested)
               THEN Abort
               ELSE Begin("upload_firmware", current_step', total_steps, "write",
                          UploadArgs(firmware_path, verify_after_upload),
                          "upload_firmware")
       ELSE /\ pc' = "verify_gate"
            /\ UNCHANGED <<current_step, events, calls, result, last_error>>
    /\ UNCHANGED <<cfgVars, total_steps, passed, measurements, stopped_at,
                   setup_error, teardown_raised, examined, abort_requested>>
    /\ UNCHANGED <<upload_time, last_cmd>>
    /\ UNCHANGED stlink_info

FinishUpload ==
    /\ pc = "upload_firmware"
    /\ \E proc \in Procs(WriteOutputs), t \in Elapsed :
         LET r == UploadFirmware(proc, verify_after_upload)
             exc == IF r.exc # None THEN r.exc
                    ELSE IF ~r.success THEN "Failed to upload firmware"
                    ELSE None
         IN  /\ calls' = Ended(calls, proc)
             /\ last_cmd' = CmdResult(proc)
             /\ verify_result' = IF r.exc = None THEN r.verify_result
                                 ELSE verify_result
             /\ upload_time' = IF r.exc = None THEN t ELSE upload_time
             /\ IF exc = None
                THEN /\ events' = events \o r.logs
                                    \o <<StepCompleteEv("upload_firmware",
                                                        current_step, TRUE, None)>>
                     /\ pc' = "verify_gate"
                     /\ UNCHANGED <<passed, stopped_at, result, last_error>>
                ELSE IF ExceptCatches(exc)
                THEN Fail("upload_firmware", "UPLOAD_ERROR", exc, r.logs,
                          FirstStoppedAt(stopped_at, "upload_firmware"),
                          "verify_gate")
                ELSE Escape(exc, r.logs)
    /\ UNCHANGED <<cfgVars, total_steps, measurements, current_step, setup_error,
                   teardown_raised, examined, abort_requested>>
    /\ UNCHANGED stlink_info

\* The verify step launches nothing: it reports verify_result.
Verify ==
    /\ pc = "verify_gate"
    /\ IF VerifyGate(verify_after_upload, passed, stop_on_failure)
       THEN /\ current_step' = current_step + 1
            /\ IF AbortPolled(abort_requested)
               THEN /\ Abort
                    /\ UNCHANGED <<passed, stopped_at>>
               ELSE IF verify_result
               THEN /\ events' = events
                          \o <<StepStartEv("verify_firmware", current_step',
                                           total_steps),
                               StepCompleteEv("verify_firmware", current_step',
                                              TRUE, None)>>
                    /\ pc' = "reset_gate"
                    /\ UNCHANGED <<passed, stopped_at, result, last_error, calls>>
               ELSE /\ events' = events
                          \o <<StepStartEv("verify_firmware", current_step',
                                           total_steps),
                               ErrorEv("VERIFY_ERROR", "Firmware verification failed"),
                               StepCompleteEv("verify_firmware", current_step',
                                              FALSE, "Firmware verification failed")>>
                    /\ last_error' = RecordError(last_error,
                                                 "Firmware verification failed")
                    /\ passed' = PassedAfterFailure(passed)
                    /\ stopped_at' = FirstStoppedAt(stopped_at, "verify_firmware")
                    /\ pc' = "reset_gate"
                    /\ UNCHANGED <<result, calls>>
       ELSE /\ pc' = "reset_gate"
            /\ UNCHANGED <<current_step, events, calls, result, last_error, passed,
                           stopped_at>>
    /\ UNCHANGED <<cfgVars, total_steps, measurements, verify_result, setup_error,
                   teardown_raised, examined, abort_requested>>
    /\ UNCHANGED <<upload_time, last_cmd>>
    /\ UNCHANGED stlink_info

StartReset ==
    /\ pc = "reset_gate"
    /\ IF ResetGate(reset_after_upload, passed)
       THEN IF AbortPolled(abort_requested)
            THEN Abort
            ELSE /\ events' = Append(events, RunningLog)
                 /\ calls' = Append(calls, Call("run", "reset", <<"-rst">>,
                                                 Len(events')))
                 /\ pc' = "reset_target"
                 /\ UNCHANGED <<result, last_error>>
       ELSE /\ pc' = "finish"
            /\ UNCHANGED <<events, calls, result, last_error>>
    /\ UNCHANGED <<cfgVars, runVars, setup_error, teardown_raised, examined,
                   abort_requested>>
    /\ UNCHANGED <<upload_time, last_cmd>>
    /\ UNCHANGED stlink_info

\* A reset that raises is logged as a warning; one that returns, whatever it
\* returns, is logged as completed.
FinishReset ==
    /\ pc = "reset_target"
    /\ \E proc \in Procs(ResetOutputs) :
         LET r == ResetTarget(proc)
         IN  /\ calls' = Ended(calls, proc)
             /\ last_cmd' = CmdResult(proc)
             /\ IF r.exc = None
                THEN /\ events' = events \o r.logs
                                    \o <<LogEv("info", "Target reset completed")>>
                     /\ pc' = "finish"
                     /\ UNCHANGED <<result, passed, stopped_at, last_error>>
                ELSE IF ResetCatches(r.exc)
                THEN /\ events' = events \o r.logs
                                    \o <<LogEv("warning", "Reset failed")>>
                     /\ pc' = "finish"
                     /\ UNCHANGED <<result, passed, stopped_at, last_error>>
                ELSE Escape(r.exc, r.logs)
    /\ UNCHANGED <<cfgVars, total_steps, measurements, current_step, verify_result,
                   setup_error, teardown_raised, examined, abort_requested>>
    /\ UNCHANGED upload_time
    /\ UNCHANGED stlink_info

Return ==
    /\ pc = "finish"
    /\ result' = BuildResult(passed, measurements, stopped_at)
    /\ pc' = "returned"
    /\ UNCHANGED <<cfgVars, runVars, setup_error, teardown_raised, events, calls,
                   examined, abort_requested, last_error>>
    /\ UNCHANGED <<upload_time, last_cmd>>
    /\ UNCHANGED stlink_info

\* The host raises the cancellation signal at any moment of run().
RunPositions ==
    {"ready", "check_connection", "erase_gate", "erase_chip", "upload_gate",
     "upload_firmware", "verify_gate", "reset_gate", "reset_target", "finish"}

HostCancel ==
    /\ pc \in RunPositions
    /\ ~abort_requested
    /\ abort_requested' = TRUE
    /\ UNCHANGED <<pc, cfgVars, runVars, result, setup_error, teardown_raised,
                   events, calls, examined, last_error>>
    /\ UNCHANGED <<upload_time, last_cmd>>
    /\ UNCHANGED stlink_info

----------------------------------------------------------------------------
(* teardown()                                                              *)

TeardownBegin ==
    /\ pc \in {"setup_failed", "returned", "aborted", "raised"}
    /\ IF last_error # None
       THEN /\ events' = events \o <<LogEv("info", "Cleaning up..."),
                                     LogEv("warning", "previous step error"),
                                     RunningLog>>
            /\ calls' = Append(calls, Call("teardown", "probe", <<"-l">>,
                                            Len(events')))
            /\ pc' = "teardown_probe"
       ELSE /\ events' = events \o <<LogEv("info", "Cleaning up..."),
                                     LogEv("info", "Teardown completed")>>
            /\ calls' = calls
            /\ pc' = "done"
    /\ UNCHANGED <<cfgVars, runVars, result, setup_error, teardown_raised, examined,
                   abort_requested, last_error>>
    /\ UNCHANGED <<upload_time, last_cmd>>
    /\ UNCHANGED stlink_info

TeardownFinish ==
    /\ pc = "teardown_probe"
    /\ \E proc \in Procs(probe_outputs) :
         LET r == CheckStlinkConnection(proc)
         IN  /\ calls' = Ended(calls, proc)
             /\ last_cmd' = CmdResult(proc)
             /\ IF r.exc = None
                THEN /\ events' = events \o r.logs
                          \o <<LogEv("debug", IF r.connected
                                              THEN "ST-LINK state: connected"
                                              ELSE "ST-LINK state: disconnected"),
                               LogEv("info", "Teardown completed")>>
                     /\ pc' = "done"
                     /\ UNCHANGED teardown_raised
                ELSE IF TeardownCatches(r.exc)
                THEN /\ events' = events \o r.logs
                          \o <<LogEv("debug", "ST-LINK state check failed"),
                               LogEv("info", "Teardown completed")>>
                     /\ pc' = "done"
                     /\ UNCHANGED teardown_raised
                ELSE /\ events' = events \o r.logs
                     /\ pc' = "teardown_raised"
                     /\ teardown_raised' = TRUE
    /\ UNCHANGED <<cfgVars, runVars, result, setup_error, examined, abort_requested,
                   last_error>>
    /\ UNCHANGED upload_time
    /\ UNCHANGED stlink_info

----------------------------------------------------------------------------
(* The specification.                                                      *)

Flags == [erase : BOOLEAN, verify : BOOLEAN, reset : BOOLEAN,
          stop_on_failure : BOOLEAN]

Params(paths, flags) ==
    { [firmware_path |-> f, erase |-> g.erase, verify |-> g.verify,
       reset |-> g.reset, stop_on_failure |-> g.stop_on_failure] :
      f \in paths, g \in flags }

\* The defaults of get_parameter for the connection parameters.
DefaultConfig ==
    [connection_mode |-> "swd", connect_mode |-> "HOTPLUG", reset_mode |-> "HWrst",
     frequency |-> 4000]

\* The defaults of get_parameter.
DefaultFlags ==
    [erase |-> FALSE, verify |-> TRUE, reset |-> TRUE, stop_on_failure |-> TRUE]

Environments(procs) ==
    [prog_exists : BOOLEAN, alt_found : BOOLEAN, executable : BOOLEAN,
     os_name : {"posix", "nt"}, version_proc : procs]

InitBase(ps, envs, cfgs, outs) ==
    /\ pc = "idle"
    /\ params \in ps
    /\ fsys \in envs
    /\ config \in cfgs
    /\ probe_outputs = outs
    /\ stlink_info = {}
    /\ firmware_path = None
    /\ firmware_size = 0
    /\ erase_before_upload = FALSE
    /\ verify_after_upload = FALSE
    /\ reset_after_upload = FALSE
    /\ stop_on_failure = FALSE
    /\ total_steps = 0
    /\ passed = FALSE
    /\ measurements = {}
    /\ stopped_at = None
    /\ current_step = 0
    /\ verify_result = FALSE
    /\ result = NoResult
    /\ setup_error = None
    /\ teardown_raised = FALSE
    /\ events = <<>>
    /\ calls = <<>>
    /\ examined = <<>>
    /\ abort_requested = FALSE
    /\ last_error = None
    /\ upload_time = 0
    /\ last_cmd = NoCmd

\* A station with the default connection parameters and the usual answers of
\* the tool to -l.
InitWith(ps, envs) == InitBase(ps, envs, {DefaultConfig}, ProbeOutputs)

\* The runs: every combination of the flags, a firmware file that is there
\* or not, a programmer that is installed or not.
Init ==
    InitWith(Params({"fw.bin", "missing.bin"}, Flags),
             { e \in Environments({Exited(0, << <<"STM32CubeProgrammer", " ", "v2.17.0">> >>)}) :
                 ~e.alt_found /\ e.executable /\ e.os_name = "posix" })

Next ==
    \/ Setup
    \/ StartCheckConnection
    \/ FinishCheckConnection
    \/ StartErase
    \/ FinishErase
    \/ StartUpload
    \/ FinishUpload
    \/ Verify
    \/ StartReset
    \/ FinishReset
    \/ Return
    \/ HostCancel
    \/ TeardownBegin
    \/ TeardownFinish

Spec == Init /\ [][Next]_vars

\* setup() and the teardown() that follows it, over every firmware path and
\* every programmer environment, with the default flags.
SetupInit == InitWith(Params(FirmwarePaths, {DefaultFlags}), Environments(VersionProcs))

SetupNext ==
    \/ Setup
    \/ TeardownBegin
    \/ TeardownFinish

SetupSpec == SetupInit /\ [][SetupNext]_vars

----------------------------------------------------------------------------
(* Observations on a state, used by the properties below.                  *)

StepIds == {"check_connection", "erase_chip", "upload_firmware", "verify_firmware"}

\* Positions of the events of one kind.
StartsOf(id) ==
    {i \in 1..Len(events) : events[i].type = "step_start" /\ events[i].id = id}

Failures ==
    {i \in 1..Len(events) : events[i].type = "step_complete" /\ ~events[i].ok}

FailedSteps == {events[i].id : i \in Failures}

FirstFailure == CHOOSE i \in Failures : \A j \in Failures : i <= j

\* The processes run() launched.
RunCalls == {i \in 1..Len(calls) : calls[i].by = "run"}

RunCallsOf(op) == {i \in RunCalls : calls[i].op = op}

TeardownCalls == {i \in 1..Len(calls) : calls[i].by = "teardown"}

\* run() is over: it returned or raised.
AfterRun == pc \in {"returned", "aborted", "raised", "teardown_probe", "done",
                    "teardown_raised"} /\ result.kind # "none"

RunReturned == result.kind = "returned"

Keys(m) == {kv[1] : kv \in m}

----------------------------------------------------------------------------
(* Properties.                                                             *)

\* C1: under stop_on_failure a failed step S ends the run: nothing is started
\* or launched by run() after the failing step-complete event of S, and once
\* run() is over it has returned passed = false with data.stopped_at = S.
C1_StopOnFailure ==
    stop_on_failure =>
        \A i \in Failures :
            /\ \A j \in (i + 1)..Len(events) : events[j].type # "step_start"
            /\ \A c \in RunCalls : calls[c].at < i
            /\ AfterRun =>
                   /\ RunReturned
                   /\ result.passed = FALSE
                   /\ result.data = {<<"stopped_at", events[i].id>>}

C1_Witness ==
    /\ stop_on_failure
    /\ pc = "done"
    /\ FailedSteps = {"erase_chip"}
    /\ RunReturned

\* C2: without stop_on_failure and without cancellation a run that is over
\* started check_connection and upload_firmware once, erase_chip and
\* verify_firmware once iff enabled, whatever failed, and returned
\* passed = false if a step failed; no step is ever started twice.
C2_EveryEnabledStepOnce ==
    /\ \A id \in StepIds : Cardinality(StartsOf(id)) <= 1
    /\ (~stop_on_failure /\ ~abort_requested /\ AfterRun) =>
           /\ RunReturned
           /\ Cardinality(StartsOf("check_connection")) = 1
           /\ Cardinality(StartsOf("upload_firmware")) = 1
           /\ Cardinality(StartsOf("erase_chip")) = (IF params.erase THEN 1 ELSE 0)
           /\ Cardinality(StartsOf("verify_firmware")) = (IF params.verify THEN 1 ELSE 0)
           /\ (Failures # {} => result.passed = FALSE)

C2_Witness ==
    /\ ~stop_on_failure
    /\ ~abort_requested
    /\ RunReturned
    /\ params.erase
    /\ params.verify
    /\ {"check_connection", "erase_chip"} \subseteq FailedSteps
    /\ StartsOf("verify_firmware") # {}

\* C3: a returned result of a run with a failed step carries the id of the
\* first failing step as data.stopped_at.
C3_FirstFailureKept ==
    (RunReturned /\ Failures # {}) =>
        result.data = {<<"stopped_at", events[FirstFailure].id>>}

C3_Witness ==
    /\ RunReturned
    /\ Cardinality(FailedSteps) >= 3
    /\ result.data = {<<"stopped_at", "erase_chip">>}

\* C4: passed starts true, is false exactly when a step has failed, never goes
\* back from false to true while run() executes, and the returned passed is
\* false iff some step failed.
C4_PassedLatch ==
    /\ [](pc = "check_connection" => passed)
    /\ [](pc \in (RunPositions \ {"ready"}) => (passed <=> Failures = {}))
    /\ [](RunReturned => (result.passed <=> Failures = {}))
    /\ [][(pc \in (RunPositions \ {"ready"}) /\ ~passed) => ~passed']_vars

C4_Witness ==
    /\ pc = "reset_gate"
    /\ ~passed
    /\ Cardinality(Failures) >= 2

\* C5: every step-start event carries total = 2 + (1 if erase) + (1 if
\* verify), whatever the reset flag is.
C5_TotalSteps ==
    \A i \in 1..Len(events) :
        events[i].type = "step_start" =>
            events[i].total = 2 + (IF params.erase THEN 1 ELSE 0)
                                + (IF params.verify THEN 1 ELSE 0)

C5_Witness ==
    /\ params.erase
    /\ ~params.verify
    /\ params.reset
    /\ StartsOf("upload_firmware") # {}

\* C6: run() launches the reset only when reset is enabled and no step has
\* failed, passed is true while the reset runs, and whatever the reset does
\* the run returns passed = true.
C6_ResetBestEffort ==
    /\ \A c \in RunCallsOf("reset") : params.reset /\ Failures = {}
    /\ pc = "reset_target" => passed
    /\ (RunCallsOf("reset") # {} /\ pc \in {"finish", "returned"}) => passed
    /\ (RunCallsOf("reset") # {} /\ RunReturned) => result.passed

C6_Witness ==
    /\ RunReturned
    /\ result.passed
    /\ \E c \in RunCallsOf("reset") : calls[c].status = "timeout"

\* C7: a run with erase off, verify on, reset on, every launched process
\* exiting with status zero, the probe finding the device and the write
\* output holding "Download verified successfully", returns passed = true,
\* measurements with the keys upload_time, upload_speed_bps, firmware_size and
\* verification_passed (= true), and no data.stopped_at.
C7_Scenario ==
    /\ ~params.erase
    /\ params.verify
    /\ params.reset
    /\ RunReturned
    /\ \A c \in RunCalls : calls[c].status = "exit" /\ calls[c].returncode = 0
    /\ \E c \in RunCallsOf("probe") : Contains(calls[c].output, "Device ID")
    /\ \E c \in RunCallsOf("write") :
           Contains(calls[c].output, "Download verified successfully")

C7_EndToEnd ==
    C7_Scenario =>
        /\ result.passed
        /\ {"upload_time", "upload_speed_bps", "firmware_size",
            "verification_passed"} \subseteq Keys(result.measurements)
        /\ <<"verification_passed", TRUE>> \in result.measurements
        /\ "stopped_at" \notin Keys(result.data)

\* C8: a firmware path that is absent, names no file or has an extension
\* outside .bin/.hex/.elf makes setup() raise a SetupError about the firmware
\* ("Firmware file not found" for the missing file) before the programmer is
\* looked at: its path is not examined and no version probe is launched,
\* whatever the state of the programmer.
C8_FirmwareErrors ==
    {"firmware_path parameter is required", "Firmware file not found",
     "Unsupported firmware format"}

C8_FirmwareCheckedFirst ==
    (pc # "idle" /\ params.firmware_path \in {None, "", "missing.bin", "fw", "fw.txt"}) =>
        /\ setup_error \in C8_FirmwareErrors
        /\ params.firmware_path = "missing.bin" => setup_error = "Firmware file not found"
        /\ pc \in {"setup_failed", "teardown_probe", "done"}
        /\ \A i \in 1..Len(examined) : examined[i] = "firmware"
        /\ \A c \in 1..Len(calls) : calls[c].op # "version"
        /\ \A i \in 1..Len(events) : events[i].text # "Setup completed successfully"

C8_Witness ==
    /\ pc = "setup_failed"
    /\ params.firmware_path = "missing.bin"
    /\ ~fsys.prog_exists
    /\ setup_error = "Firmware file not found"

\* C9: unless the run is cancelled, run() raises nothing: once it is over it
\* has returned a result with a boolean passed and a measurements mapping, on
\* the early returns too, and passed is false when a probe, erase or write
\* raised (timeout or launch failure).
C9_IsMapping(m) == \A a \in m : \A b \in m : a[1] = b[1] => a = b

C9_NoErrorEscapes ==
    /\ pc # "raised"
    /\ (AfterRun /\ ~RunReturned) =>
           (abort_requested /\ result.data = {<<"exc", "AbortError">>})
    /\ RunReturned =>
           /\ result.passed \in BOOLEAN
           /\ C9_IsMapping(result.measurements)
           /\ (\E c \in RunCalls :
                   /\ calls[c].op \in {"probe", "erase", "write"}
                   /\ calls[c].status \in {"timeout", "launch_fail"})
              => result.passed = FALSE

C9_Witness ==
    /\ RunReturned
    /\ stop_on_failure
    /\ ~abort_requested
    /\ \E c \in RunCallsOf("write") : calls[c].status = "launch_fail"

\* C10: teardown() raises nothing: it launches the probe at most once, and
\* only when an error was recorded, and after every outcome of that probe it
\* ends with the "Teardown completed" log.
C10_TeardownNeverRaises ==
    /\ ~teardown_raised
    /\ pc # "teardown_raised"
    /\ Cardinality(TeardownCalls) <= 1
    /\ TeardownCalls # {} => last_error # None
    /\ (pc = "done" /\ last_error = None) => TeardownCalls = {}
    /\ (pc = "done" /\ last_error # None) =>
           \E c \in TeardownCalls : calls[c].op = "probe" /\ calls[c].status # "running"
    /\ pc = "done" => events[Len(events)] = LogEv("info", "Teardown completed")

C10_Witness ==
    /\ pc = "done"
    /\ \E c \in TeardownCalls : calls[c].status = "launch_fail"
    /\ RunReturned

----------------------------------------------------------------------------
(* Cancellation.                                                           *)

StepStarts == {i \in 1..Len(events) : events[i].type = "step_start"}

\* run() stands at a boundary whose step (or reset) is about to start.
AboutToStart ==
    \/ pc = "ready"
    \/ pc = "erase_gate" /\ EraseGate(erase_before_upload, passed, stop_on_failure)
    \/ pc = "upload_gate" /\ UploadGate(passed, stop_on_failure)
    \/ pc = "verify_gate" /\ VerifyGate(verify_after_upload, passed, stop_on_failure)
    \/ pc = "reset_gate" /\ ResetGate(reset_after_upload, passed)

\* run() awaits a tool invocation.
InProgress ==
    pc \in {"check_connection", "erase_chip", "upload_firmware", "reset_target"}

\* C11: with the cancellation signal set, a step (or reset) about to start
\* aborts the run there without a step-start event or a tool invocation; no
\* step-start event and no invocation of run() is ever added while the signal
\* is set; an invocation in progress is never aborted, it ends as a process
\* does and the signal is acted on at the next boundary.
C11_CancelAtBoundaries ==
    [][/\ (abort_requested /\ AboutToStart) =>
              /\ pc' = "aborted"
              /\ result' = RaisedResult("AbortError")
              /\ events' = events
              /\ calls' = calls
       /\ abort_requested =>
              /\ {i \in 1..Len(events') : events'[i].type = "step_start"} = StepStarts
              /\ {i \in 1..Len(calls') : calls'[i].by = "run"} = RunCalls
       /\ (abort_requested /\ InProgress) =>
              /\ pc' # "aborted"
              /\ calls'[Len(calls')].status \in {"exit", "timeout", "launch_fail"}
       /\ pc' = "aborted" => abort_requested /\ AboutToStart]_vars

\* A run cancelled while the write was in progress: the upload finished, the
\* verify step that was due never started.
C11_Witness ==
    /\ pc = "aborted"
    /\ abort_requested
    /\ verify_after_upload
    /\ StartsOf("upload_firmware") # {}
    /\ StartsOf("verify_firmware") = {}
    /\ \A c \in RunCalls : calls[c].status # "running"
    /\ Cardinality(RunCallsOf("write")) = 1

----------------------------------------------------------------------------
(* Termination.                                                            *)

\* The steps run() takes by itself: each awaited invocation ends, by exit,
\* launch failure or the timeout of asyncio.wait_for, and the code between
\* two awaits runs to the next one.
RunStep ==
    \/ StartCheckConnection
    \/ FinishCheckConnection
    \/ StartErase
    \/ FinishErase
    \/ StartUpload
    \/ FinishUpload
    \/ Verify
    \/ StartReset
    \/ FinishReset
    \/ Return

LiveSpec == Init /\ [][Next]_vars /\ WF_vars(RunStep)

RunAborted == result = RaisedResult("AbortError")

\* run() left no trace that a later transition could change.
RunOutcome == <<result, runVars, StepStarts, RunCalls, Failures>>

\* C12 as stated: every run that starts eventually returns a result, by
\* normal completion or by the early return of stop_on_failure.
C12_AlwaysReturns == (pc = "ready") ~> RunReturned

\* C12, amended: every run that starts eventually ends, by returning a result
\* (normal completion or the early return of stop_on_failure) or, when the host
\* raised the cancellation signal, by the abort error of a step boundary; no
\* other error ends it; once run() is over nothing of its outcome changes.
C12_RunEnds ==
    /\ (pc = "ready") ~> (RunReturned \/ (RunAborted /\ abort_requested))
    /\ [][AfterRun => (RunOutcome' = RunOutcome /\ AfterRun')]_vars
    /\ [](AfterRun => (RunReturned \/ (RunAborted /\ abort_requested)))

\* A run cancelled during the erase ended by the abort error, and teardown
\* left it so.
C12_Witness ==
    /\ pc = "done"
    /\ RunAborted
    /\ abort_requested
    /\ StartsOf("erase_chip") # {}
    /\ StartsOf("upload_firmware") = {}

----------------------------------------------------------------------------
(* Upload throughput.                                                      *)

\* Firmware byte size over elapsed upload time, 0 for a zero elapsed time.
Throughput(size, time) == IF time = 0 THEN 0 ELSE size \div time

UploadSucceeded ==
    \E i \in 1..Len(events) :
        /\ events[i].type = "step_complete"
        /\ events[i].id = "upload_firmware"
        /\ events[i].ok

\* C13: a run that returned after a successful upload reports
\* upload_speed_bps = firmware size / elapsed upload time, and 0 when the
\* elapsed time is zero.
C13_ThroughputReported ==
    (RunReturned /\ UploadSucceeded) =>
        <<"upload_speed_bps", Throughput(firmware_size, upload_time)>>
            \in result.measurements

----------------------------------------------------------------------------
(* Order of the steps.                                                     *)

\* The fixed order of the steps; reset, which emits no step events, is last.
Rank(id) ==
    CASE id = "check_connection" -> 1
      [] id = "erase_chip" -> 2
      [] id = "upload_firmware" -> 3
      [] id = "verify_firmware" -> 4
      [] OTHER -> 5

StepCompletes == {i \in 1..Len(events) : events[i].type = "step_complete"}

\* The step is over at position i of the event log.
CompletedBefore(id, i) ==
    \E j \in StepCompletes : j < i /\ events[j].id = id

\* C14: step-start events come in the order check_connection, erase_chip,
\* upload_firmware, verify_firmware, each after the step-complete of every
\* step started before it; the tool is invoked for reset after every step is
\* over; no step starts and no operation is invoked twice; a step whose flag
\* is disabled never starts and its operation is never invoked.
C14_SequentialOrder ==
    /\ \A i, j \in StepStarts :
           i < j => /\ Rank(events[i].id) < Rank(events[j].id)
                    /\ CompletedBefore(events[i].id, j)
    /\ \A c \in RunCallsOf("reset"), i \in StepStarts :
           /\ i < calls[c].at
           /\ CompletedBefore(events[i].id, calls[c].at)
    /\ \A c, d \in RunCalls :
           c < d => /\ calls[c].status # "running"
                    /\ calls[c].op # calls[d].op
    /\ \A id \in StepIds : Cardinality(StartsOf(id)) <= 1
    /\ ~erase_before_upload =>
           StartsOf("erase_chip") = {} /\ RunCallsOf("erase") = {}
    /\ ~verify_after_upload => StartsOf("verify_firmware") = {}
    /\ ~reset_after_upload => RunCallsOf("reset") = {}

\* Every flag enabled and every step passed: the four steps and reset ran.
C14_Witness ==
    /\ RunReturned
    /\ result.passed
    /\ \A id \in StepIds : Cardinality(StartsOf(id)) = 1
    /\ Cardinality(RunCallsOf("reset")) = 1
    /\ Cardinality(RunCalls) = 4

----------------------------------------------------------------------------
(* Pairing of step events.                                                 *)

IsStepEvent(e) == e.type \in {"step_start", "step_complete"}

\* The step-start and step-complete events, in the order emitted.
StepEvents == SelectSeq(events, IsStepEvent)

\* C15: the step events of a run are pairs: a step-start, then, before any
\* other step event, one step-complete with the same step id and ordinal,
\* whether the step passed, failed, raised or timed out; a step-start without
\* its step-complete exists only while that step's invocation is awaited,
\* never once run() returned or raised.
C15_StartCompletePairs ==
    /\ \A k \in 1..Len(StepEvents) :
           IF k % 2 = 1
           THEN StepEvents[k].type = "step_start"
           ELSE /\ StepEvents[k].type = "step_complete"
                /\ StepEvents[k].id = StepEvents[k - 1].id
                /\ StepEvents[k].index = StepEvents[k - 1].index
    /\ Len(StepEvents) % 2 = 1 =>
           /\ InProgress
           /\ pc = StepEvents[Len(StepEvents)].id
    /\ AfterRun => Len(StepEvents) % 2 = 0

\* The erase timed out and the upload could not be launched: both steps have
\* their step-complete.
C15_Witness ==
    /\ RunReturned
    /\ \E c \in RunCallsOf("erase") : calls[c].status = "timeout"
    /\ \E c \in RunCallsOf("write") : calls[c].status = "launch_fail"
    /\ {"erase_chip", "upload_firmware"} \subseteq FailedSteps
    /\ Len(StepEvents) = 2 * Cardinality(StepStarts)

----------------------------------------------------------------------------
(* Error events.                                                           *)

\* The code of the error event of each step.
ErrorCode(id) ==
    CASE id = "check_connection" -> "CONNECTION_ERROR"
      [] id = "erase_chip" -> "ERASE_ERROR"
      [] id = "upload_firmware" -> "UPLOAD_ERROR"
      [] id = "verify_firmware" -> "VERIFY_ERROR"
      [] OTHER -> None

Errors == {i \in 1..Len(events) : events[i].type = "error"}

\* C16: every failing step-complete event is immediately preceded by one
\* error event with the code of that step and the same message; every error
\* event is immediately followed by a failing step-complete, so there is one
\* error event per failure and none for a step that passes or for reset.
C16_OneErrorPerFailure ==
    /\ \A i \in Failures :
           /\ events[i].id \in StepIds
           /\ i > 1
           /\ events[i - 1] = ErrorEv(ErrorCode(events[i].id), events[i].text)
    /\ \A i \in Errors : (i + 1) \in Failures
    /\ Cardinality(Errors) = Cardinality(Failures)

\* Every step failed in one run, and the four codes were emitted.
C16_Witness ==
    /\ RunReturned
    /\ FailedSteps = StepIds
    /\ {events[i].id : i \in Errors} =
           {"CONNECTION_ERROR", "ERASE_ERROR", "UPLOAD_ERROR", "VERIFY_ERROR"}
    /\ Cardinality(Errors) = 4

----------------------------------------------------------------------------
(* No retries; the verify step.                                            *)

Operations == {"probe", "erase", "write", "reset"}

\* The verification outcome of the write invocation: what its output says,
\* read according to its exit status; none if the write did not exit.
WriteVerified ==
    \E c \in RunCallsOf("write") :
        /\ calls[c].status = "exit"
        /\ IF calls[c].returncode = 0
           THEN \/ Contains(calls[c].output, "File download complete")
                \/ Contains(calls[c].output, "Download verified successfully")
           ELSE Contains(calls[c].output, "Download verified successfully")

\* C17: run() invokes each tool operation at most once, also when it failed;
\* between the step-start and the step-complete of verify_firmware nothing
\* is launched (the step-complete follows at once, after the error event if
\* it fails), and the step passes iff the write invocation of upload_firmware
\* reported the firmware verified.
C17_NoRetries ==
    /\ \A op \in Operations : Cardinality(RunCallsOf(op)) <= 1
    /\ \A c \in RunCalls : calls[c].op \in Operations
    /\ \A i \in StartsOf("verify_firmware") :
           LET j == IF events[i + 1].type = "error" THEN i + 2 ELSE i + 1
           IN  /\ Len(events) >= j
               /\ events[j].type = "step_complete"
               /\ events[j].id = "verify_firmware"
               /\ events[j].ok = WriteVerified
               /\ events[j].ok = verify_result
               /\ \A c \in RunCalls :
                      \/ calls[c].at < i
                      \/ calls[c].op = "reset" /\ calls[c].at > j
               /\ Cardinality(RunCallsOf("write")) = 1

\* The erase timed out and was not tried again; the write ran once and the
\* verify step reported its outcome.
C17_Witness ==
    /\ RunReturned
    /\ \E c \in RunCallsOf("erase") : calls[c].status = "timeout"
    /\ \E c \in RunCallsOf("write") : calls[c].status = "exit"
    /\ \E i \in StepCompletes : events[i].id = "verify_firmware" /\ events[i].ok
    /\ Cardinality(RunCalls) = 3

----------------------------------------------------------------------------
(* Hardware failures of a step's invocation.                               *)

\* The step that invokes an operation.
StepOf(op) ==
    CASE op = "probe" -> "check_connection"
      [] op = "erase" -> "erase_chip"
      [] op = "write" -> "upload_firmware"
      [] OTHER -> None

\* The invocation ended without an exit status: it could not be launched or
\* it timed out.
NoExit(c) == calls[c].status \in {"launch_fail", "timeout"}

NonZeroExit(c) == calls[c].status = "exit" /\ calls[c].returncode # 0

\* The run reports the step of invocation c as failed.
ReportedFailed(c) ==
    /\ StepOf(calls[c].op) \in FailedSteps
    /\ RunReturned => ~result.passed

\* C18 as stated: launch failure, timeout or non-zero exit of the invocation
\* of check_connection, erase_chip or upload_firmware fails the step and the
\* run, whatever the tool printed.
C18_HardwareFailureFails ==
    \A c \in RunCalls :
        (calls[c].op \in {"probe", "erase", "write"} /\ (NoExit(c) \/ NonZeroExit(c)))
            => ReportedFailed(c)

\* C18, amended: a launch failure or a timeout fails the step of any of the
\* three invocations; a non-zero exit fails erase_chip and upload_firmware
\* whatever was printed, and these two steps fail for no other reason;
\* check_connection does not look at the exit status: once the probe exited
\* the step fails iff the output names neither "Device ID" nor "Device name";
\* a failed step makes the returned passed false.
C18_FailureByOperation ==
    \A c \in RunCalls :
        /\ (calls[c].op \in {"erase", "write"} /\ calls[c].status # "running") =>
               /\ (NoExit(c) \/ NonZeroExit(c)) <=>
                      StepOf(calls[c].op) \in FailedSteps
               /\ (NoExit(c) \/ NonZeroExit(c)) => ReportedFailed(c)
        /\ (calls[c].op = "probe" /\ NoExit(c)) => ReportedFailed(c)
        /\ (calls[c].op = "probe" /\ calls[c].status = "exit") =>
               /\ "check_connection" \in FailedSteps <=>
                      ~(\/ Contains(calls[c].output, "Device ID")
                        \/ Contains(calls[c].output, "Device name"))
               /\ "check_connection" \in FailedSteps => ReportedFailed(c)

\* The probe exited with status 1 naming the device and the step passed; the
\* erase exited with status 1 and the step failed.
C18_Witness ==
    /\ RunReturned
    /\ \E c \in RunCallsOf("probe") :
           NonZeroExit(c) /\ Contains(calls[c].output, "Device ID")
    /\ "check_connection" \notin FailedSteps
    /\ \E c \in RunCallsOf("erase") : NonZeroExit(c)
    /\ "erase_chip" \in FailedSteps
    /\ ~result.passed

----------------------------------------------------------------------------
(* The tool invoker.                                                       *)

\* The invocations made through _run_programmer_cmd.
CmdCalls == {c \in 1..Len(calls) : calls[c].by \in {"run", "teardown"}}

CommandFailedLogs ==
    {i \in 1..Len(events) : events[i] = LogEv("error", "Command failed")}

\* C19: when an invocation is over the invoker either returned (true, output),
\* and it did so iff the process exited with status zero, or returned
\* (false, output) after a non-zero exit, with one error-level log of the
\* output per such exit, or raised a HardwareError because the process could
\* not be launched or did not finish within the bound of 120; it raises
\* nothing else and never returns true for a non-zero exit.
C19_InvokerOutcomes ==
    /\ \A c \in CmdCalls : calls[c].timeout = 120
    /\ last_cmd.error_kind \in {None, "HardwareError"}
    /\ Cardinality(CommandFailedLogs) =
           Cardinality({c \in CmdCalls : NonZeroExit(c)})
    /\ (calls # <<>> /\ Len(calls) \in CmdCalls
          /\ calls[Len(calls)].status # "running") =>
           LET c == calls[Len(calls)]
           IN  /\ (c.status = "exit" /\ c.returncode = 0) <=>
                      (last_cmd.error_kind = None /\ last_cmd.success)
               /\ (c.status = "exit" /\ c.returncode # 0) <=>
                      (last_cmd.error_kind = None /\ ~last_cmd.success)
               /\ c.status \in {"launch_fail", "timeout"} <=>
                      last_cmd.error_kind = "HardwareError"
               /\ c.status = "exit" => last_cmd.output = c.output
               /\ c.status = "timeout" =>
                      last_cmd.exc = "Programmer command timed out"
               /\ c.status = "launch_fail" =>
                      last_cmd.exc = "Failed to run programmer"
               /\ (c.status = "exit" /\ c.returncode # 0) =>
                      \E i \in CommandFailedLogs : i > c.at

\* After a probe that timed out, the erase exited with status 1: the invoker
\* returned (false, output) and logged the failure once.
C19_Witness ==
    /\ pc = "upload_gate"
    /\ \E c \in RunCallsOf("probe") : calls[c].status = "timeout"
    /\ NonZeroExit(Len(calls))
    /\ calls[Len(calls)].op = "erase"
    /\ last_cmd = [error_kind |-> None, exc |-> None, success |-> FALSE,
                   output |-> << <<"Mass erase successfully achieved">> >>]
    /\ Cardinality(CommandFailedLogs) = 1

----------------------------------------------------------------------------
(* The version probe of setup().                                           *)

SetupCalls == {c \in 1..Len(calls) : calls[c].by = "setup"}

SetupCompleted ==
    \E i \in 1..Len(events) : events[i] = LogEv("info", "Setup completed successfully")

\* setup() raised its SetupError and did not complete.
SetupFailed == setup_error # None /\ pc # "ready" /\ ~SetupCompleted

Identified(c) == Contains(calls[c].output, "STM32CubeProgrammer")

\* C20 as stated: a version probe that cannot be launched, times out or
\* prints no identifying text makes setup fail without completing.
C20_UnrecognizedFails ==
    \A c \in SetupCalls :
        (calls[c].status # "exit" \/ ~Identified(c)) => SetupFailed

\* C20, amended: the version probe is bounded by 10; setup fails without
\* completing iff the probe cannot be launched, times out, or exits with a
\* non-zero status without the identifying text; an exit status of zero is
\* accepted whatever was printed, and so is the identifying text whatever the
\* exit status.
C20_VersionProbe ==
    \A c \in SetupCalls :
        /\ calls[c].timeout = 10
        /\ SetupFailed <=>
               \/ calls[c].status # "exit"
               \/ ~Identified(c) /\ calls[c].returncode # 0
        /\ ~SetupFailed => (setup_error = None /\ SetupCompleted /\ pc = "ready")

\* The tool exited with status 1 and printed nothing recognizable: setup
\* failed.
C20_Witness ==
    /\ pc = "setup_failed"
    /\ setup_error = "Failed to verify STM32CubeProgrammer CLI"
    /\ \E c \in SetupCalls :
           /\ calls[c].status = "exit"
           /\ calls[c].returncode = 1
           /\ calls[c].output # <<>>
           /\ ~Identified(c)
    /\ ~SetupCompleted

----------------------------------------------------------------------------
(* A failing reset.                                                        *)

ResetWarnings ==
    {i \in 1..Len(events) : events[i] = LogEv("warning", "Reset failed")}

ResetCompletedLogs ==
    {i \in 1..Len(events) : events[i] = LogEv("info", "Target reset completed")}

\* C21: whenever the reset invocation failed (non-zero exit, timeout or
\* launch failure) the run logged one warning for the reset after launching
\* it, logged no "Target reset completed", emitted no error event and no step
\* event after the launch, and returns passed = true.
C21_ResetFailureWarned ==
    \A c \in RunCallsOf("reset") :
        (NoExit(c) \/ NonZeroExit(c)) =>
            /\ \E i \in ResetWarnings : i > calls[c].at
            /\ Cardinality(ResetWarnings) = 1
            /\ ResetCompletedLogs = {}
            /\ \A i \in (calls[c].at + 1)..Len(events) :
                   events[i].type \notin {"error", "step_start", "step_complete"}
            /\ RunReturned => result.passed

----------------------------------------------------------------------------
(* The verification outcome of the write operation.                        *)

\* C22: once the write command exited, the verification outcome kept by
\* run() is true whenever verification was not requested, whatever the output
\* and the exit status; when verification was requested and the command
\* exited zero it is true iff the output contains "File download complete" or
\* "Download verified successfully".  The write command carries -v iff
\* verification was requested, no other command carries it, and the write is
\* invoked once.
C22_VerificationOutcome ==
    /\ \A c \in RunCallsOf("write") :
           /\ calls[c].status = "exit" =>
                  /\ ~verify_after_upload => verify_result
                  /\ (verify_after_upload /\ calls[c].returncode = 0) =>
                         (verify_result <=>
                             \/ Contains(calls[c].output, "File download complete")
                             \/ Contains(calls[c].output,
                                         "Download verified successfully"))
           /\ (\E k \in 1..Len(calls[c].args) : calls[c].args[k] = "-v")
                  <=> verify_after_upload
           /\ calls[c].args[1] = "-w"
    /\ \A c \in 1..Len(calls) :
           calls[c].op # "write" =>
               \A k \in 1..Len(calls[c].args) : calls[c].args[k] # "-v"
    /\ Cardinality(RunCallsOf("write")) <= 1

\* Verification requested, the write exited zero printing only "File
\* download complete": the outcome is true.
C22_Witness ==
    /\ pc = "verify_gate"
    /\ verify_after_upload
    /\ verify_result
    /\ \E c \in RunCallsOf("write") :
           /\ calls[c].status = "exit"
           /\ calls[c].returncode = 0
           /\ calls[c].output = << <<"File download complete">> >>
           /\ calls[c].args = <<"-w", "fw.bin", "0x08000000", "-v">>

----------------------------------------------------------------------------
(* Interpretation of the connection probe.                                 *)

\* Lines the tool prints for -l, and the outputs made of them.
ProbeLines ==
    { <<"ST-LINK SN", " ", ":", " ", "12345">>,
      <<"ST-LINK SN", ":", "67890">>,
      <<"Device ID", ":", " ", "0x450">>,
      <<"Device name", ":", " ", "STM32H7xx">>,
      <<"Device name", ":", "STM32F4xx", ":", "rev Y">>,
      <<"Error", ":", " ", "No debug probe detected">> }

MaxLines == 2

ParseOutputs == UNION {[1..n -> ProbeLines] : n \in 0..MaxLines}

\* The first step of run() over every output of the probe.
ProbeInit ==
    InitBase(Params({"fw.bin"},
                    {[DefaultFlags EXCEPT !.stop_on_failure = b] : b \in BOOLEAN}),
             { e \in Environments({Exited(0, << <<"STM32CubeProgrammer", " ", "v2.17.0">> >>)}) :
                 e.prog_exists /\ ~e.alt_found /\ e.executable /\ e.os_name = "posix" },
             {DefaultConfig}, ParseOutputs)

ProbeNext ==
    \/ Setup
    \/ StartCheckConnection
    \/ FinishCheckConnection
    \/ HostCancel

ProbeSpec == ProbeInit /\ [][ProbeNext]_vars

\* The text after the first colon of a line.
RECURSIVE AfterFirstColon(_)
AfterFirstColon(line) ==
    IF line = <<>> THEN <<>>
    ELSE IF Head(line) = ":" THEN Tail(line)
    ELSE AfterFirstColon(Tail(line))

\* The trimmed text after the first colon of the first line holding `key`,
\* "unknown" when no line holds it.
RECURSIVE FirstValue(_, _)
FirstValue(lines, key) ==
    IF lines = <<>> THEN <<"unknown">>
    ELSE IF LineContains(Head(lines), key) THEN Strip(AfterFirstColon(Head(lines)))
    ELSE FirstValue(Tail(lines), key)

\* C23: once the probe exited, whatever its status, check_connection passes
\* iff some line holds "Device ID" or "Device name"; the info is then serial =
\* trimmed text after the first colon of the first "ST-LINK SN" line and
\* device_name = the same of the first "Device name" line, "unknown" without
\* such a line; without presence the info is empty.
C23_ProbeInterpretation ==
    \A c \in RunCallsOf("probe") :
        calls[c].status = "exit" =>
            LET out == calls[c].output
                present == Contains(out, "Device ID") \/ Contains(out, "Device name")
            IN  /\ present <=> "check_connection" \notin FailedSteps
                /\ stlink_info =
                       IF present
                       THEN { <<"serial", FirstValue(out, "ST-LINK SN")>>,
                              <<"device_name", FirstValue(out, "Device name")>> }
                       ELSE {}

----------------------------------------------------------------------------
(* The connect string.                                                     *)

\* The values the connection parameters may be given.
Configs ==
    [connection_mode : {"swd", "SWD", "jtag"},
     connect_mode : {None, "", "NORMAL", "normal", "HOTPLUG", "hotplug", "ur"},
     reset_mode : {None, "", "HWrst", "SWrst"},
     frequency : {0, 4000}]

\* One run with every flag set, over every connection configuration.
ConnInit ==
    InitBase(Params({"fw.bin"},
                    {[erase |-> TRUE, verify |-> TRUE, reset |-> TRUE,
                      stop_on_failure |-> TRUE]}),
             { e \in Environments({Exited(0, << <<"STM32CubeProgrammer", " ", "v2.17.0">> >>)}) :
                 e.prog_exists /\ ~e.alt_found /\ e.executable /\ e.os_name = "posix" },
             Configs, ProbeOutputs)

ConnNext ==
    \/ Setup
    \/ RunStep

ConnSpec == ConnInit /\ [][ConnNext]_vars

\* Letter-case folding, and the upper-cased spellings.
Fold(s) ==
    CASE s \in {"swd", "SWD"} -> "swd"
      [] s \in {"jtag", "JTAG"} -> "jtag"
      [] s \in {"normal", "Normal", "NORMAL"} -> "normal"
      [] s \in {"hotplug", "HOTPLUG"} -> "hotplug"
      [] s \in {"ur", "UR"} -> "ur"
      [] OTHER -> s

UpperCased == {"SWD", "JTAG", "NORMAL", "HOTPLUG", "UR"}

KeyRank(k) ==
    CASE k = "port" -> 1
      [] k = "mode" -> 2
      [] k = "reset" -> 3
      [] k = "freq" -> 4
      [] OTHER -> 0

\* The tokens of a connect string with a given key.
TokensOf(cs, k) == {i \in 1..Len(cs) : cs[i][1] = k}

\* C24: every invocation of run() carries the same connect string, made of
\* key=value tokens in the order port, mode, reset, freq and of no other
\* token: port is always first with the upper-cased transport; mode is there
\* iff a connect mode is set and is not NORMAL in any letter case, with the
\* upper-cased mode; reset is there iff a reset mode is set, with the mode as
\* configured; freq is there iff the frequency is non-zero.
C24_ConnectString ==
    /\ \A c, d \in CmdCalls : calls[c].connect = calls[d].connect
    /\ \A c \in CmdCalls :
           LET cs == calls[c].connect
           IN  /\ Len(cs) >= 1
               /\ cs[1][1] = "port"
               /\ cs[1][2] \in UpperCased
               /\ Fold(cs[1][2]) = Fold(config.connection_mode)
               /\ \A i, j \in 1..Len(cs) :
                      i < j => 0 < KeyRank(cs[i][1]) /\ KeyRank(cs[i][1]) < KeyRank(cs[j][1])
               /\ TokensOf(cs, "mode") # {} <=>
                      (Truthy(config.connect_mode)
                         /\ Fold(config.connect_mode) # "normal")
               /\ \A i \in TokensOf(cs, "mode") :
                      /\ cs[i][2] \in UpperCased
                      /\ Fold(cs[i][2]) = Fold(config.connect_mode)
               /\ TokensOf(cs, "reset") # {} <=> Truthy(config.reset_mode)
               /\ \A i \in TokensOf(cs, "reset") : cs[i][2] = config.reset_mode
               /\ TokensOf(cs, "freq") # {} <=> config.frequency # 0
               /\ \A i \in TokensOf(cs, "freq") :
                      cs[i][2] = ToString(config.frequency)

\* A run of four invocations with transport swd, connect mode normal, reset
\* mode HWrst and frequency 4000: each carried port=SWD reset=HWrst freq=4000.
C24_Witness ==
    /\ RunReturned
    /\ Cardinality(RunCalls) = 4
    /\ config = [connection_mode |-> "swd", connect_mode |-> "normal",
                 reset_mode |-> "HWrst", frequency |-> 4000]
    /\ \A c \in RunCalls :
           calls[c].connect =
               << <<"port", "SWD">>, <<"reset", "HWrst">>, <<"freq", "4000">> >>

----------------------------------------------------------------------------
(* The returned result.                                                    *)

\* C25: a result returned with passed = true has no data, and one returned
\* with passed = false has data.stopped_at naming one of the four steps, on
\* the early returns as on the final one.
C25_StoppedAtIffFailed ==
    RunReturned =>
        /\ result.passed => result.data = {}
        /\ ~result.passed =>
               \E id \in StepIds : result.data = {<<"stopped_at", id>>}
        /\ result.passed <=> Failures = {}

\* The final return after a failed verification, the only failure of the
\* run.
C25_Witness ==
    /\ RunReturned
    /\ ~result.passed
    /\ result.data = {<<"stopped_at", "verify_firmware">>}
    /\ FailedSteps = {"verify_firmware"}
    /\ stop_on_failure

----------------------------------------------------------------------------
(* Step ordinals.                                                          *)

IsStepStart(e) == e.type = "step_start"

\* The step-start events of the run, in order.
StepStartSeq == SelectSeq(events, IsStepStart)

\* A failed step ended the run by the early return of stop_on_failure.
StoppedEarly ==
    stop_on_failure
      /\ FailedSteps \cap {"check_connection", "erase_chip", "upload_firmware"} # {}

\* C26: the k-th step-start event carries ordinal k and the total step count
\* of the run, no ordinal of a step event exceeds that total, and a run that
\* returned without an early return of stop_on_failure started as many steps
\* as the total: its last step carries ordinal = total.
C26_Ordinals ==
    /\ \A k \in 1..Len(StepStartSeq) :
           /\ StepStartSeq[k].index = k
           /\ StepStartSeq[k].total = total_steps
           /\ k <= total_steps
    /\ \A i \in StepCompletes : events[i].index \in 1..total_steps
    /\ (RunReturned /\ ~StoppedEarly) =>
           /\ Len(StepStartSeq) = total_steps
           /\ StepStartSeq[Len(StepStartSeq)].index = total_steps

\* Erase and verify enabled, the erase failed and the run went on: four
\* steps, the last with ordinal 4 of 4.
C26_Witness ==
    /\ RunReturned
    /\ ~stop_on_failure
    /\ "erase_chip" \in FailedSteps
    /\ total_steps = 4
    /\ Len(StepStartSeq) = 4
    /\ StepStartSeq[4].id = "verify_firmware"
    /\ StepStartSeq[4].index = 4

----------------------------------------------------------------------------
(* Verify after a failed upload.                                           *)

====
